---- MODULE Spec2Model ----
(***************************************************************************)
(* A model of the subtitle timeline editor of Ai-Subtitle-Generator:       *)
(* SubtitlePreview / WaveformEditor (src/components/SubtitlePreview.tsx),  *)
(* SubtitleLineEdit (src/components/SubtitleLineEdit.tsx) and the SRT      *)
(* codec (src/utils/srtParser.ts).                                         *)
(*                                                                         *)
(* Conventions.                                                            *)
(*  - Time is an integer number of ticks, Sec ticks to the second, so that *)
(*    the arithmetic of the code (division by the canvas width, rounding   *)
(*    to milliseconds) is exact on the values the model draws.             *)
(*  - A JavaScript string is a sequence of one-character strings.          *)
(*  - Arrays are 1-based sequences: index i of the model is index i-1 of   *)
(*    the code.                                                            *)
(*  - Every event handler is one action; React state written by a handler  *)
(*    is visible to the next handler (one render between two events).      *)
(***************************************************************************)
EXTENDS Integers, Sequences, FiniteSets, TLC

VARIABLES
    \* ---- SubtitlePreview (host) ----
    editableSubtitles,      \* useState<SubtitleEntry[]>       SubtitlePreview.tsx:22
    selectedSubtitleIndex,  \* useState<number | null>         SubtitlePreview.tsx:25
    mediaTime,              \* mediaRef.current.currentTime    SubtitlePreview.tsx:18
    currentTime,            \* useState(0)                     SubtitlePreview.tsx:24
    currentSubtitle,        \* useState<string>('')            SubtitlePreview.tsx:20
    srtContent,             \* the text handed to the Blob     SubtitlePreview.tsx:64
    playbackEndTime,        \* playbackEndTimeRef.current      SubtitlePreview.tsx:23
    paused,                 \* mediaRef.current.paused
    \* ---- WaveformEditor ----
    dragInfo,               \* useState<{type,index,...}|null> SubtitlePreview.tsx:244
    uncaught,               \* the last handler ended in an uncaught TypeError
    commits,                \* completed calls of the onUpdateFinished prop
    splits,                 \* completed calls of the onSplitSubtitle prop
    file,                   \* the File prop (an object identity)
    loads,                  \* every run of processAudio: its isActive flag, its position
    audioBuffer,            \* useState<AudioBuffer | null>    SubtitlePreview.tsx:241
    duration,               \* useState(0)                     SubtitlePreview.tsx:243
    peaks,                  \* useState<[number, number][]>    SubtitlePreview.tsx:242
    containerWidth,         \* containerRef.current.clientWidth
    canvasWidth,            \* canvasRef.current.width
    mounted,                \* the component has not been torn down
    draws,                  \* the draw() calls of the last handler and its render
    \* ---- extractPeaks as a function under test ----
    pkData, pkWidth, pkOut,
    \* ---- the SRT codec as functions under test ----
    durationHint,           \* the duration argument of toSrt  srtParser.ts:56
    parsed,                 \* the result of parseSrt          srtParser.ts:28
    fmtIn, fmtOut,          \* secondsToTimeString: argument and result
    \* ---- SubtitleLineEdit, one value per row ----
    startTimeStr,           \* useState('')                    SubtitleLineEdit.tsx:35
    endTimeStr,             \* useState('')                    SubtitleLineEdit.tsx:36
    \* ---- the subtitle history (spec section 4.4) ----
    snapshots,              \* the snapshots, oldest first
    cursor,                 \* the 0-based index of the current snapshot
    visible,                \* the sequence the history hands to the editor
    calls,                  \* the last two operations called on the history
    \* ---- App ----
    appFile,                \* useState<File | null>(null)    part_004:12
    subtitles,              \* useState<SubtitleEntry[]>([])  part_004:13
    status,                 \* useState<Status>(Status.IDLE)  part_004:14
    runs                    \* every call of handleGenerateSubtitles: its file, its position

hostVars  == <<editableSubtitles, selectedSubtitleIndex, mediaTime, currentTime,
               currentSubtitle, srtContent, playbackEndTime, paused>>
dragVars  == <<dragInfo, uncaught, commits, splits>>
audioVars == <<file, loads, audioBuffer, duration, peaks, containerWidth,
               canvasWidth, mounted, draws>>
peakVars  == <<pkData, pkWidth, pkOut>>
codecVars == <<durationHint, parsed, fmtIn, fmtOut>>
rowVars   == <<startTimeStr, endTimeStr>>
historyVars == <<snapshots, cursor, visible, calls>>
appVars   == <<appFile, subtitles, status, runs>>
vars      == <<hostVars, dragVars, audioVars, peakVars, codecVars, rowVars,
               historyVars, appVars>>

\* null and undefined. A record-valued variable holds None or the record; a
\* number- or string-valued one holds None or Some(value).
None    == <<>>
Some(v) == <<v>>
Val(o)  == o[1]

(***************************************************************************)
(* Bounds of the model.                                                    *)
(***************************************************************************)
TicksPerMs  == 10      \* resolution of time: ticks to the millisecond
CanvasWidth == 12      \* width of the waveform surface in the editor, px
SecPerPx    == 1       \* seconds of media one pixel stands for
XStep       == 4       \* the pointer positions drawn are the multiples of XStep
Overshoot   == 2       \* how many steps the pointer may travel past either edge
AmpOne      == 2       \* the amplitude 1.0, in sample units
MaxSamples  == 4       \* longest sample buffer given to extractPeaks
MaxWidth    == 3       \* widest surface of the audio and peak specifications
MaxFiles    == 3
MaxSrtEntries == 2
MaxBlocks   == 3
MaxSnapshots == 3
MaxAppFiles == 2
MaxRuns     == 2       \* files the host hands to one editor

Sec           == 1000 * TicksPerMs
MediaDuration == CanvasWidth * SecPerPx * Sec

(***************************************************************************)
(* Numbers and strings.                                                    *)
(***************************************************************************)
Abs(n)    == IF n < 0 THEN -n ELSE n
Max2(a, b) == IF a > b THEN a ELSE b
Min2(a, b) == IF a < b THEN a ELSE b

DigitChars == <<"0", "1", "2", "3", "4", "5", "6", "7", "8", "9">>
IsDigit(c) == \E d \in 1..10 : DigitChars[d] = c
DigitVal(c) == (CHOOSE d \in 1..10 : DigitChars[d] = c) - 1

\* Number.prototype.toString of a non-negative integer.
RECURSIVE NumToString(_)
NumToString(n) == IF n < 10 THEN <<DigitChars[n + 1]>>
                  ELSE NumToString(n \div 10) \o <<DigitChars[(n % 10) + 1]>>

\* String.prototype.padStart(size, '0').
RECURSIVE PadStart(_, _)
PadStart(s, size) == IF Len(s) >= size THEN s ELSE PadStart(<<"0">> \o s, size)

(***************************************************************************)
(* srtParser.ts: time strings.                                             *)
(***************************************************************************)
NaN == -1   \* stands for NaN; every number the parsers produce is >= 0

isNaN(x) == x = NaN

\* String.prototype.replace(from, to) with a string pattern: the first match.
RECURSIVE ReplaceFirst(_, _, _)
ReplaceFirst(s, from, to) ==
    IF s = <<>> THEN <<>>
    ELSE IF Head(s) = from THEN <<to>> \o Tail(s)
    ELSE <<Head(s)>> \o ReplaceFirst(Tail(s), from, to)

\* The least element of a non-empty set of numbers.
Least(S) == CHOOSE x \in S : \A y \in S : x <= y

\* String.prototype.split(sep) for a one-character separator.
RECURSIVE Split(_, _)
Split(s, sep) ==
    LET at == {k \in 1..Len(s) : s[k] = sep}
    IN  IF at = {} THEN <<s>>
        ELSE << SubSeq(s, 1, Least(at) - 1) >>
             \o Split(SubSeq(s, Least(at) + 1, Len(s)), sep)

RECURSIVE LeadingDigits(_)
LeadingDigits(s) ==
    IF s = <<>> \/ ~IsDigit(Head(s)) THEN <<>>
    ELSE <<Head(s)>> \o LeadingDigits(Tail(s))

RECURSIVE DigitsValue(_)
DigitsValue(ds) ==
    IF ds = <<>> THEN 0
    ELSE DigitsValue(SubSeq(ds, 1, Len(ds) - 1)) * 10 + DigitVal(ds[Len(ds)])

\* The first three digits after the point, as milliseconds.
MillisOf(ds) ==
    LET d(k) == IF k <= Len(ds) THEN DigitVal(ds[k]) ELSE 0
    IN  d(1) * 100 + d(2) * 10 + d(3)

\* parseFloat of an unsigned decimal without exponent, in ticks; digits past
\* the third decimal are below a millisecond and are dropped.
parseFloat(s) ==
    LET int  == LeadingDigits(s)
        rest == SubSeq(s, Len(int) + 1, Len(s))
        frac == IF rest # <<>> /\ Head(rest) = "."
                THEN LeadingDigits(Tail(rest)) ELSE <<>>
    IN  IF int = <<>> /\ frac = <<>> THEN NaN
        ELSE DigitsValue(int) * Sec + MillisOf(frac) * TicksPerMs

timeStringToSeconds(time) ==
    LET parts == Split(ReplaceFirst(time, ",", "."), ":")
    IN  IF Len(parts) # 3 THEN NaN
        ELSE LET h == parseFloat(parts[1])
                 m == parseFloat(parts[2])
                 s == parseFloat(parts[3])
             IN  IF isNaN(h) \/ isNaN(m) \/ isNaN(s) THEN NaN
                 ELSE h * 3600 + m * 60 + s

pad(num, size) == PadStart(NumToString(num), size)

\* Math.round of the non-negative rational n / d.
Round(n, d) == (2 * n + d) \div (2 * d)

secondsToTimeString(totalSeconds) ==
    IF isNaN(totalSeconds) \/ totalSeconds < 0
    THEN <<"0","0",":","0","0",":","0","0",",","0","0","0">>
    ELSE LET hours        == totalSeconds \div (3600 * Sec)
             minutes      == (totalSeconds % (3600 * Sec)) \div (60 * Sec)
             seconds      == (totalSeconds % (60 * Sec)) \div Sec
             milliseconds == Round((totalSeconds % Sec) * 1000, Sec)
         IN  pad(hours, 2) \o <<":">> \o pad(minutes, 2) \o <<":">>
             \o pad(seconds, 2) \o <<",">> \o pad(milliseconds, 3)

\* /^\d{2}:\d{2}:\d{2},\d{3}$/.test(s)
timeRegex(s) ==
    /\ Len(s) = 12
    /\ \A k \in {1, 2, 4, 5, 7, 8, 10, 11, 12} : IsDigit(s[k])
    /\ s[3] = ":" /\ s[6] = ":" /\ s[9] = ","

(***************************************************************************)
(* SubtitlePreview.tsx: the authoritative sequence and updateEntry.        *)
(***************************************************************************)
Entry(st, en, tx) == [startTime |-> st, endTime |-> en, text |-> tx]

\* handleSubtitleUpdate without the swap of lines 80-82.
handleSubtitleUpdate_NoSwap(subs, index, updatedEntry) ==
    [subs EXCEPT ![index] = updatedEntry]

\* handleSubtitleUpdate: the new value of editableSubtitles.
handleSubtitleUpdate(subs, index, updatedEntry) ==
    LET stored == IF updatedEntry.startTime > updatedEntry.endTime
                  THEN [updatedEntry EXCEPT !.startTime = updatedEntry.endTime,
                                            !.endTime   = updatedEntry.startTime]
                  ELSE updatedEntry
    IN  [subs EXCEPT ![index] = stored]

\* The props SubtitlePreview passes to WaveformEditor. The props interface of
\* WaveformEditor (lines 226-236) also declares onUpdateFinished and
\* onSplitSubtitle, which the host leaves undefined: calling one of them
\* throws a TypeError that ends the handler.
PassedProps == {"file", "subtitles", "onUpdateSubtitle", "currentTime", "onSeek",
                "selectedSubtitleIndex", "onSelectSubtitle"}

(***************************************************************************)
(* WaveformEditor: coordinates, hit-testing and the drag session.          *)
(***************************************************************************)
HANDLE_WIDTH == 4

\* pxToTime: (px / canvas.width) * duration. Exact here: the duration the
\* editor specification draws is a multiple of the canvas width.
pxToTime(px) == (px * duration) \div canvasWidth

\* timeToPx(time) = (time / duration) * canvas.width is compared with the
\* pointer's x after multiplying both sides by the duration, which keeps the
\* comparison exact for times that fall between two pixels.
\* Math.abs(x - timeToPx(time)) < HANDLE_WIDTH
NearEdge(x, time) == Abs(x * duration - time * canvasWidth) < HANDLE_WIDTH * duration
\* x > timeToPx(time)
RightOf(x, time) == x * duration > time * canvasWidth
\* x < timeToPx(time)
LeftOf(x, time) == x * duration < time * canvasWidth

\* The body of the loop of lines 378-396 for entry i: the session it opens.
HitEntry(subs, i, x) ==
    LET sub == subs[i]
        session(type) == [type |-> type, index |-> i, startX |-> x,
                          originalStart |-> sub.startTime,
                          originalEnd |-> sub.endTime]
    IN  IF NearEdge(x, sub.startTime) THEN session("start")
        ELSE IF NearEdge(x, sub.endTime) THEN session("end")
        ELSE IF RightOf(x, sub.startTime) /\ LeftOf(x, sub.endTime) THEN session("move")
        ELSE None

\* for (let i = subtitles.length - 1; i >= 0; i--): the first entry that is hit.
RECURSIVE HitTest(_, _, _)
HitTest(subs, i, x) ==
    IF i = 0 THEN None
    ELSE IF HitEntry(subs, i, x) # None THEN HitEntry(subs, i, x)
    ELSE HitTest(subs, i - 1, x)

\* The loop of lines 369-375 taking the edges of an entry for its inside.
RECURSIVE SplitTarget_Inclusive(_, _, _)
SplitTarget_Inclusive(subs, i, time) ==
    IF i = 0 THEN 0
    ELSE IF time >= subs[i].startTime /\ time <= subs[i].endTime THEN i
    ELSE SplitTarget_Inclusive(subs, i - 1, time)

\* The loop of lines 369-375: the entry a split-intent click falls strictly inside.
RECURSIVE SplitTarget(_, _, _)
SplitTarget(subs, i, time) ==
    IF i = 0 THEN 0
    ELSE IF time > subs[i].startTime /\ time < subs[i].endTime THEN i
    ELSE SplitTarget(subs, i - 1, time)

\* DragUpdate that lets a dragged edge pass the opposite edge.
DragUpdate_Crossing(sub, info, x) ==
    IF info.type = "move"
    THEN LET deltaX       == x - info.startX
             deltaTime    == pxToTime(deltaX)
             newStartTime == Max2(0, info.originalStart + deltaTime)
             newEndTime   == Min2(duration,
                                  newStartTime + (info.originalEnd - info.originalStart))
         IN  [sub EXCEPT !.startTime = newStartTime, !.endTime = newEndTime]
    ELSE LET newTime == Max2(0, Min2(duration, pxToTime(x)))
         IN  IF info.type = "start"
             THEN [sub EXCEPT !.startTime = newTime]
             ELSE [sub EXCEPT !.endTime = newTime]

\* The entry handleMouseMove proposes: lines 406-423.
DragUpdate(sub, info, x) ==
    IF info.type = "move"
    THEN LET deltaX       == x - info.startX
             deltaTime    == pxToTime(deltaX)
             newStartTime == Max2(0, info.originalStart + deltaTime)
             newEndTime   == Min2(duration,
                                  newStartTime + (info.originalEnd - info.originalStart))
         IN  [sub EXCEPT !.startTime = newStartTime, !.endTime = newEndTime]
    ELSE LET newTime == Max2(0, Min2(duration, pxToTime(x)))
         IN  IF info.type = "start"
             THEN [sub EXCEPT !.startTime = Min2(newTime, sub.endTime)]
             ELSE [sub EXCEPT !.endTime = Max2(newTime, sub.startTime)]

\* Pointer positions relative to the left edge of the canvas. A pointer-down
\* is received by the canvas; pointer-moves are received by the window.
CanvasXs  == {x \in 0..CanvasWidth : x % XStep = 0}
PointerXs == {x \in (0 - Overshoot * XStep)..(CanvasWidth + Overshoot * XStep) :
                  x % XStep = 0}

handleMouseDown(x, altKey) ==
    LET time   == pxToTime(x)
        target == IF altKey THEN SplitTarget(editableSubtitles,
                                             Len(editableSubtitles), time)
                  ELSE 0
        hit    == HitTest(editableSubtitles, Len(editableSubtitles), x)
    IN  /\ mounted
        /\ IF target # 0
           THEN \* onSplitSubtitle(i, time)
                /\ uncaught' = ("onSplitSubtitle" \notin PassedProps)
                /\ splits' = IF "onSplitSubtitle" \in PassedProps
                             THEN splits + 1 ELSE splits
                /\ UNCHANGED <<dragInfo, selectedSubtitleIndex, mediaTime>>
           ELSE IF hit # None
           THEN /\ dragInfo' = hit
                /\ selectedSubtitleIndex' =
                       IF hit.type = "move" THEN Some(hit.index) ELSE selectedSubtitleIndex
                /\ uncaught' = FALSE
                /\ UNCHANGED <<mediaTime, splits>>
           ELSE \* onSeek(time)
                /\ mediaTime' = time
                /\ uncaught' = FALSE
                /\ UNCHANGED <<dragInfo, selectedSubtitleIndex, splits>>
        /\ UNCHANGED <<editableSubtitles, currentTime, currentSubtitle, srtContent,
                       playbackEndTime, paused, commits, audioVars, peakVars, codecVars,
                       rowVars, historyVars, appVars>>

\* The effect of SubtitleLineEdit.tsx lines 39-43, run by the row whose entry
\* prop is a new object: both time fields show the formatted times again.
EntryEffect(index) ==
    /\ startTimeStr' = [startTimeStr EXCEPT ![index] =
                            secondsToTimeString(editableSubtitles'[index].startTime)]
    /\ endTimeStr' = [endTimeStr EXCEPT ![index] =
                          secondsToTimeString(editableSubtitles'[index].endTime)]

handleMouseMove(x) ==
    /\ mounted
    /\ uncaught' = FALSE
    /\ IF dragInfo = None
       THEN UNCHANGED <<editableSubtitles, rowVars>>
       ELSE /\ editableSubtitles' =
                   handleSubtitleUpdate(editableSubtitles, dragInfo.index,
                       DragUpdate(editableSubtitles[dragInfo.index], dragInfo, x))
            /\ EntryEffect(dragInfo.index)
    /\ UNCHANGED <<selectedSubtitleIndex, mediaTime, currentTime, currentSubtitle,
                   srtContent, playbackEndTime, paused, dragInfo, commits, splits,
                   audioVars, peakVars, codecVars, historyVars, appVars>>

\* The body shared by handleMouseUp and handleMouseLeave (lines 429-432 and
\* 436-439): if (dragInfo) onUpdateFinished(); setDragInfo(null).
EndDrag ==
    IF dragInfo # None /\ "onUpdateFinished" \notin PassedProps
    THEN /\ uncaught' = TRUE
         /\ UNCHANGED <<dragInfo, commits, splits>>
    ELSE /\ uncaught' = FALSE
         /\ commits' = IF dragInfo # None THEN commits + 1 ELSE commits
         /\ dragInfo' = None
         /\ UNCHANGED splits

handleMouseUp ==
    /\ mounted
    /\ EndDrag
    /\ UNCHANGED <<hostVars, audioVars, peakVars, codecVars, rowVars,
                   historyVars, appVars>>

handleMouseLeave ==
    /\ mounted
    /\ EndDrag
    /\ UNCHANGED <<hostVars, audioVars, peakVars, codecVars, rowVars,
                   historyVars, appVars>>

(***************************************************************************)
(* SubtitleLineEdit: a manual edit of a start or end time.                 *)
(***************************************************************************)
\* What the user may type into a time field.
TypedTimes == {secondsToTimeString(4 * Sec), secondsToTimeString(20 * Sec),
               <<"0","0",":","0","0",":","0","4",".","0","0","0">>,
               <<"4">>}

\* The text of a time field of row index.
FieldText(index, field) ==
    IF field = "startTime" THEN startTimeStr[index] ELSE endTimeStr[index]

\* The time field of row index can hold the focus: every other time field
\* lost it, and so ran handleTimeBlur, after it was last typed into.
OthersBlurred(index, field) ==
    \A j \in 1..Len(editableSubtitles), g \in {"startTime", "endTime"} :
        <<j, g>> # <<index, field>>
            => FieldText(j, g) = secondsToTimeString(editableSubtitles[j][g])

\* onChange of a time input (lines 93 and 102): setStartTimeStr / setEndTimeStr.
handleTimeChange(index, field, value) ==
    /\ mounted
    /\ OthersBlurred(index, field)
    /\ uncaught' = FALSE
    /\ IF field = "startTime"
       THEN /\ startTimeStr' = [startTimeStr EXCEPT ![index] = value]
            /\ UNCHANGED endTimeStr
       ELSE /\ endTimeStr' = [endTimeStr EXCEPT ![index] = value]
            /\ UNCHANGED startTimeStr
    /\ UNCHANGED <<hostVars, dragInfo, commits, splits, audioVars, peakVars,
                   codecVars, historyVars, appVars>>

\* handleTimeBlur that shows the end time in whichever field it reverts.
handleTimeBlur_RevertsToEnd(index, field) ==
    LET entry   == editableSubtitles[index]
        value   == FieldText(index, field)
        seconds == timeStringToSeconds(value)
    IN  /\ mounted
        /\ uncaught' = FALSE
        /\ IF timeRegex(value)
           THEN IF ~isNaN(seconds)
                THEN /\ editableSubtitles' =
                            handleSubtitleUpdate(editableSubtitles, index,
                                IF field = "startTime"
                                THEN [entry EXCEPT !.startTime = seconds]
                                ELSE [entry EXCEPT !.endTime = seconds])
                     /\ EntryEffect(index)
                ELSE UNCHANGED <<editableSubtitles, rowVars>>
           ELSE /\ UNCHANGED editableSubtitles
                /\ IF field = "startTime"
                   THEN /\ startTimeStr' = [startTimeStr EXCEPT ![index] =
                                                secondsToTimeString(entry.endTime)]
                        /\ UNCHANGED endTimeStr
                   ELSE /\ endTimeStr' = [endTimeStr EXCEPT ![index] =
                                              secondsToTimeString(entry.endTime)]
                        /\ UNCHANGED startTimeStr
        /\ UNCHANGED <<selectedSubtitleIndex, mediaTime, currentTime, currentSubtitle,
                       srtContent, playbackEndTime, paused, dragInfo, commits, splits,
                       audioVars, peakVars, codecVars, historyVars, appVars>>

\* handleTimeBlur(field) of row index.
handleTimeBlur(index, field) ==
    LET entry   == editableSubtitles[index]
        value   == FieldText(index, field)
        isValid == timeRegex(value)
        seconds == timeStringToSeconds(value)
    IN  /\ mounted
        /\ uncaught' = FALSE
        /\ IF isValid
           THEN IF ~isNaN(seconds)
                THEN /\ editableSubtitles' =
                            handleSubtitleUpdate(editableSubtitles, index,
                                IF field = "startTime"
                                THEN [entry EXCEPT !.startTime = seconds]
                                ELSE [entry EXCEPT !.endTime = seconds])
                     /\ EntryEffect(index)
                ELSE UNCHANGED <<editableSubtitles, rowVars>>
           ELSE /\ UNCHANGED editableSubtitles
                /\ IF field = "startTime"
                   THEN /\ startTimeStr' = [startTimeStr EXCEPT ![index] =
                                                secondsToTimeString(entry.startTime)]
                        /\ UNCHANGED endTimeStr
                   ELSE /\ endTimeStr' = [endTimeStr EXCEPT ![index] =
                                              secondsToTimeString(entry.endTime)]
                        /\ UNCHANGED startTimeStr
        /\ UNCHANGED <<selectedSubtitleIndex, mediaTime, currentTime, currentSubtitle,
                       srtContent, playbackEndTime, paused, dragInfo, commits, splits,
                       audioVars, peakVars, codecVars, historyVars, appVars>>

(***************************************************************************)
(* WaveformEditor: peak extraction.                                        *)
(***************************************************************************)
\* The inner loop of lines 287-291 from sample j (0-based) up to end. A read
\* past the array yields undefined, and both comparisons with it are false.
RECURSIVE ScanBucket(_, _, _, _, _)
ScanBucket(data, j, end, min, max) ==
    IF j >= end THEN <<min, max>>
    ELSE IF j >= Len(data) THEN ScanBucket(data, j + 1, end, min, max)
    ELSE LET val == data[j + 1]
         IN  ScanBucket(data, j + 1, end,
                        IF val < min THEN val ELSE min,
                        IF val > max THEN val ELSE max)

\* extractPeaks that stops at the last bucket holding a sample.
extractPeaks_DataBuckets(data, width) ==
    LET step == (Len(data) + width - 1) \div width
        n    == (Len(data) + step - 1) \div step
    IN  [i \in 1..n |-> ScanBucket(data, (i - 1) * step, i * step, AmpOne, 0 - AmpOne)]

\* extractPeaks(buffer, width), data being buffer.getChannelData(0).
extractPeaks(data, width) ==
    LET step == (Len(data) + width - 1) \div width    \* Math.ceil(data.length / width)
    IN  [i \in 1..width |->
            ScanBucket(data, (i - 1) * step, (i - 1) * step + step, AmpOne, 0 - AmpOne)]

SampleValues == {0 - AmpOne, -1, 0, 1, AmpOne}

(***************************************************************************)
(* WaveformEditor: decoding the file, the surface and its redraws.         *)
(***************************************************************************)
\* What decodeAudioData yields for file f: files differ in length and content.
FileData(f) == [j \in 1..(f + 1) |-> IF j % 2 = 1 THEN AmpOne ELSE 1 - f]
Buffer(f)   == [file |-> f, data |-> FileData(f), duration |-> Len(FileData(f)) * Sec]

\* One call of draw() (lines 297-336): nothing is drawn without a buffer.
Draw(buf, pks, width) ==
    IF buf = None THEN <<>> ELSE << [peaks |-> Len(pks), width |-> width] >>

\* The effect of lines 272-275 run for every load: isActive = false.
Deactivate(ls) == [f \in DOMAIN ls |-> [ls[f] EXCEPT !.isActive = FALSE]]

\* The host hands the editor another File: the effect of lines 248-276 is
\* cleaned up and run again.
FileChange ==
    /\ mounted
    /\ file < MaxFiles
    /\ file' = file + 1
    /\ loads' = [f \in DOMAIN loads \cup {file + 1} |->
                    IF f = file + 1 THEN [isActive |-> TRUE, pc |-> "await"]
                    ELSE [loads[f] EXCEPT !.isActive = FALSE]]
    /\ draws' = <<>>
    /\ UNCHANGED <<audioBuffer, duration, peaks, containerWidth, canvasWidth, mounted,
                   hostVars, dragVars, peakVars, codecVars, rowVars,
                   historyVars, appVars>>

\* The editor is torn down.
Unmount ==
    /\ mounted
    /\ mounted' = FALSE
    /\ loads' = Deactivate(loads)
    /\ draws' = <<>>
    /\ UNCHANGED <<file, audioBuffer, duration, peaks, containerWidth, canvasWidth,
                   hostVars, dragVars, peakVars, codecVars, rowVars,
                   historyVars, appVars>>

\* processAudio of load f without the test of line 256.
ApplyDecode_NoGuard(f) ==
    LET buffer == Buffer(f)
        width  == containerWidth
        pks    == IF width > 0 THEN extractPeaks(buffer.data, width) ELSE peaks
    IN  /\ loads' = [loads EXCEPT ![f].pc = "done"]
        /\ audioBuffer' = buffer
        /\ duration' = buffer.duration
        /\ peaks' = pks
        /\ canvasWidth' = containerWidth
        /\ draws' = Draw(buffer, pks, containerWidth)

\* processAudio of load f from line 256 on, both awaits having resolved. The
\* render that follows runs handleResize again (the effect of line 338
\* depends on audioBuffer) and draws with the state just written.
ApplyDecode(f) ==
    IF ~loads[f].isActive
    THEN /\ loads' = [loads EXCEPT ![f].pc = "discarded"]
         /\ draws' = <<>>
         /\ UNCHANGED <<audioBuffer, duration, peaks, canvasWidth>>
    ELSE LET buffer == Buffer(f)
             width  == containerWidth
             pks    == IF width > 0 THEN extractPeaks(buffer.data, width) ELSE peaks
         IN  /\ loads' = [loads EXCEPT ![f].pc = "done"]
             /\ audioBuffer' = buffer
             /\ duration' = buffer.duration
             /\ peaks' = pks
             /\ canvasWidth' = containerWidth
             /\ draws' = Draw(buffer, pks, containerWidth)

DecodeResolve(f) ==
    /\ loads[f].pc = "await"
    /\ ApplyDecode(f)
    /\ UNCHANGED <<file, containerWidth, mounted, hostVars, dragVars, peakVars, codecVars,
                   rowVars, historyVars, appVars>>

\* arrayBuffer() or decodeAudioData() rejects: the catch of line 266.
DecodeReject(f) ==
    /\ loads[f].pc = "await"
    /\ loads' = [loads EXCEPT ![f].pc = "failed"]
    /\ draws' = <<>>
    /\ UNCHANGED <<file, audioBuffer, duration, peaks, containerWidth, canvasWidth,
                   mounted, hostVars, dragVars, peakVars, codecVars,
                   rowVars, historyVars, appVars>>

\* handleResize (lines 341-349) after the container took width w: the canvas
\* is resized, setPeaks is called, and draw() runs at once with the peaks of
\* the render that created it; the render that setPeaks causes draws again.
handleResize(w) ==
    LET pks == IF audioBuffer # None /\ w > 0
               THEN extractPeaks(audioBuffer.data, w) ELSE peaks
    IN  /\ mounted
        /\ containerWidth' = w
        /\ canvasWidth' = w
        /\ peaks' = pks
        /\ draws' = Draw(audioBuffer, peaks, w) \o
                    (IF pks # peaks THEN Draw(audioBuffer, pks, w) ELSE <<>>)
        /\ UNCHANGED <<file, loads, audioBuffer, duration, mounted,
                       hostVars, dragVars, peakVars, codecVars, rowVars,
                       historyVars, appVars>>

\* A render that gives draw a new identity without a resize (the currentTime
\* prop moved): handleResize and the effect of line 356 both draw.
Redraw ==
    /\ mounted
    /\ draws' = Draw(audioBuffer, peaks, canvasWidth)
    /\ UNCHANGED <<file, loads, audioBuffer, duration, peaks, containerWidth,
                   canvasWidth, mounted, hostVars, dragVars, peakVars, codecVars,
                   rowVars, historyVars, appVars>>

(***************************************************************************)
(* srtParser.ts: toSrt, the export grouping.                               *)
(***************************************************************************)
Whitespace == {" ", "\n", "\t", "\r"}

RECURSIVE TrimStart(_)
TrimStart(s) == IF s # <<>> /\ Head(s) \in Whitespace THEN TrimStart(Tail(s)) ELSE s

RECURSIVE TrimEnd(_)
TrimEnd(s) == IF s # <<>> /\ s[Len(s)] \in Whitespace
              THEN TrimEnd(SubSeq(s, 1, Len(s) - 1)) ELSE s

\* String.prototype.trim
Trim(s) == TrimEnd(TrimStart(s))

\* /[.?!]$/.test(text.trim())
endsWithPunctuation(text) ==
    LET t == Trim(text) IN t # <<>> /\ t[Len(t)] \in {".", "?", "!"}

\* isPair without the punctuation test.
isPair_IgnoresPunctuation(localEntries, i) ==
    /\ i + 1 <= Len(localEntries)
    /\ localEntries[i + 1].startTime - localEntries[i].endTime < Sec \div 2

\* isPair of line 80 at index i (1-based); sub2 is undefined past the end.
isPair(localEntries, i) ==
    /\ i + 1 <= Len(localEntries)
    /\ localEntries[i + 1].startTime - localEntries[i].endTime < Sec \div 2
    /\ ~endsWithPunctuation(localEntries[i].text)

\* `${srtIndex}\n${startTime} --> ${endTime}\n${text}`
Block(srtIndex, startTime, endTime, text) ==
    NumToString(srtIndex) \o <<"\n">> \o secondsToTimeString(startTime)
    \o <<" ", "-", "-", ">", " ">> \o secondsToTimeString(endTime) \o <<"\n">> \o text

\* The loop advancing by one entry after a pair as well.
RECURSIVE SrtBlocks_Overlapping(_, _, _)
SrtBlocks_Overlapping(localEntries, i, srtIndex) ==
    IF i > Len(localEntries) THEN <<>>
    ELSE IF isPair(localEntries, i)
    THEN << Block(srtIndex, localEntries[i].startTime, localEntries[i + 1].endTime,
                  localEntries[i].text \o <<"\n">> \o localEntries[i + 1].text) >>
         \o SrtBlocks_Overlapping(localEntries, i + 1, srtIndex + 1)
    ELSE << Block(srtIndex, localEntries[i].startTime, localEntries[i].endTime,
                  localEntries[i].text) >>
         \o SrtBlocks_Overlapping(localEntries, i + 1, srtIndex + 1)

\* The while loop of lines 74-96 from index i on: the blocks it pushes.
RECURSIVE SrtBlocks(_, _, _)
SrtBlocks(localEntries, i, srtIndex) ==
    IF i > Len(localEntries) THEN <<>>
    ELSE IF isPair(localEntries, i)
    THEN << Block(srtIndex, localEntries[i].startTime, localEntries[i + 1].endTime,
                  localEntries[i].text \o <<"\n">> \o localEntries[i + 1].text) >>
         \o SrtBlocks(localEntries, i + 2, srtIndex + 1)
    ELSE << Block(srtIndex, localEntries[i].startTime, localEntries[i].endTime,
                  localEntries[i].text) >>
         \o SrtBlocks(localEntries, i + 1, srtIndex + 1)

\* The same loop, keeping which entries each block was built from.
RECURSIVE ExportGroups(_, _)
ExportGroups(localEntries, i) ==
    IF i > Len(localEntries) THEN <<>>
    ELSE IF isPair(localEntries, i)
    THEN << <<i, i + 1>> >> \o ExportGroups(localEntries, i + 2)
    ELSE << <<i>> >> \o ExportGroups(localEntries, i + 1)

\* Array.prototype.join(sep)
RECURSIVE Join(_, _)
Join(parts, sep) ==
    IF parts = <<>> THEN <<>>
    ELSE IF Len(parts) = 1 THEN parts[1]
    ELSE parts[1] \o sep \o Join(Tail(parts), sep)

\* The extension without the test of line 65.
ExtendLast_Always(entries, hint) ==
    LET n == Len(entries)
    IN  IF hint # None /\ Val(hint) # 0 /\ n > 0
        THEN [entries EXCEPT ![n].endTime = Val(hint)]
        ELSE entries

\* Lines 63-68: the last entry is extended to a truthy duration hint.
ExtendLast(entries, hint) ==
    LET n == Len(entries)
    IN  IF hint # None /\ Val(hint) # 0 /\ n > 0 /\ entries[n].endTime < Val(hint)
        THEN [entries EXCEPT ![n].endTime = Val(hint)]
        ELSE entries

\* toSrt(entries, duration?); hint = None when the argument is left out.
toSrt(entries, hint) ==
    IF Len(entries) = 0 THEN <<>>
    ELSE Join(SrtBlocks(ExtendLast(entries, hint), 1, 1), <<"\n", "\n">>)

(***************************************************************************)
(* srtParser.ts: parseSrt.                                                 *)
(***************************************************************************)
\* String.prototype.replace(/\r\n/g, '\n')
RECURSIVE ReplaceCRLF(_)
ReplaceCRLF(s) ==
    LET at == {k \in 1..(Len(s) - 1) : s[k] = "\r" /\ s[k + 1] = "\n"}
    IN  IF at = {} THEN s
        ELSE SubSeq(s, 1, Least(at) - 1)
             \o ReplaceCRLF(SubSeq(s, Least(at) + 1, Len(s)))

\* The last "\n" of the run of whitespace of s that holds index q, best when
\* it holds none: where a match of /\n\s*\n/ ends.
RECURSIVE LastNewline(_, _, _)
LastNewline(s, q, best) ==
    IF q > Len(s) \/ s[q] \notin Whitespace THEN best
    ELSE LastNewline(s, q + 1, IF s[q] = "\n" THEN q ELSE best)

\* String.prototype.split(/\n\s*\n/)
RECURSIVE SplitBlocks(_)
SplitBlocks(s) ==
    LET at == {p \in 1..Len(s) : s[p] = "\n" /\ LastNewline(s, p + 1, 0) # 0}
    IN  IF at = {} THEN <<s>>
        ELSE << SubSeq(s, 1, Least(at) - 1) >>
             \o SplitBlocks(SubSeq(s, LastNewline(s, Least(at) + 1, 0) + 1, Len(s)))

Arrow == <<"-", "-", ">">>

\* line.includes('-->')
Includes(line, pat) ==
    \E k \in 1..(Len(line) - Len(pat) + 1) : SubSeq(line, k, k + Len(pat) - 1) = pat

\* lines.findIndex(line => line.includes('-->')), 0 for -1
RECURSIVE FindIndex(_, _)
FindIndex(lines, i) ==
    IF i > Len(lines) THEN 0
    ELSE IF Includes(lines[i], Arrow) THEN i
    ELSE FindIndex(lines, i + 1)

\* \d{2}:\d{2}:\d{2},\d{3} matches line from index p on
TimestampAt(line, p) == p + 11 <= Len(line) /\ timeRegex(SubSeq(line, p, p + 11))

\* The first index from p on that holds no whitespace: where \s* stops.
RECURSIVE SkipWhitespace(_, _)
SkipWhitespace(line, p) ==
    IF p <= Len(line) /\ line[p] \in Whitespace THEN SkipWhitespace(line, p + 1) ELSE p

\* The pattern of line 41 matches line from index p on.
MatchAt(line, p) ==
    /\ TimestampAt(line, p)
    /\ LET a == SkipWhitespace(line, p + 12)
       IN  /\ a + 2 <= Len(line)
           /\ SubSeq(line, a, a + 2) = Arrow
           /\ TimestampAt(line, SkipWhitespace(line, a + 3))

\* timeLine.match(...): where the leftmost match starts, 0 for null.
TimeMatch(line, p) ==
    LET at == {k \in p..Len(line) : MatchAt(line, k)}
    IN  IF at = {} THEN 0 ELSE Least(at)

\* The callback of blocks.map (lines 33-52): the entry of a block, None for null.
ParseBlock(block) ==
    LET lines         == Split(block, "\n")
        timeLineIndex == FindIndex(lines, 1)
    IN  IF Len(lines) < 2 THEN None
        ELSE IF timeLineIndex = 0 THEN None
        ELSE LET timeLine == lines[timeLineIndex]
                 p        == TimeMatch(timeLine, 1)
             IN  IF p = 0 THEN None
                 ELSE LET q         == SkipWhitespace(timeLine,
                                           SkipWhitespace(timeLine, p + 12) + 3)
                          startTime == timeStringToSeconds(SubSeq(timeLine, p, p + 11))
                          endTime   == timeStringToSeconds(SubSeq(timeLine, q, q + 11))
                          text      == Trim(Join(SubSeq(lines, timeLineIndex + 1,
                                                        Len(lines)), <<"\n">>))
                      IN  IF isNaN(startTime) \/ isNaN(endTime) THEN None
                          ELSE Entry(startTime, endTime, text)

\* .filter(entry => entry !== null)
RECURSIVE DropNull(_)
DropNull(entries) ==
    IF entries = <<>> THEN <<>>
    ELSE IF Head(entries) = None THEN DropNull(Tail(entries))
    ELSE <<Head(entries)>> \o DropNull(Tail(entries))

\* parseSrt that keeps only the blocks up to the first malformed one.
RECURSIVE TakeUntilNull(_)
TakeUntilNull(entries) ==
    IF entries = <<>> \/ Head(entries) = None THEN <<>>
    ELSE <<Head(entries)>> \o TakeUntilNull(Tail(entries))

parseSrt_StopAtMalformed(srt) ==
    IF srt = <<>> THEN <<>>
    ELSE LET blocks == SplitBlocks(ReplaceCRLF(Trim(srt)))
         IN  TakeUntilNull([b \in 1..Len(blocks) |-> ParseBlock(blocks[b])])

parseSrt(srt) ==
    IF srt = <<>> THEN <<>>
    ELSE LET blocks == SplitBlocks(ReplaceCRLF(Trim(srt)))
         IN  DropNull([b \in 1..Len(blocks) |-> ParseBlock(blocks[b])])

(***************************************************************************)
(* SubtitlePreview: playback and download.                                 *)
(***************************************************************************)
\* editableSubtitles.find(sub => newTime >= sub.startTime && newTime <= sub.endTime)
RECURSIVE FindActive(_, _, _)
FindActive(subs, i, newTime) ==
    IF i > Len(subs) THEN 0
    ELSE IF newTime >= subs[i].startTime /\ newTime <= subs[i].endTime THEN i
    ELSE FindActive(subs, i + 1, newTime)

\* The caption handleTimeUpdate shows at newTime: lines 49-52.
ActiveCaption(subs, newTime) ==
    LET k == FindActive(subs, 1, newTime)
    IN  IF k = 0 THEN <<>> ELSE subs[k].text

\* handleTimeUpdate that pauses at the pending end and keeps it.
handleTimeUpdate_KeepsEnd(newTime) ==
    LET stop == playbackEndTime # None /\ newTime >= Val(playbackEndTime)
    IN  /\ mediaTime' = newTime
        /\ currentTime' = newTime
        /\ paused' = IF stop THEN TRUE ELSE paused
        /\ currentSubtitle' = ActiveCaption(editableSubtitles, newTime)
        /\ UNCHANGED <<editableSubtitles, selectedSubtitleIndex, srtContent,
                       playbackEndTime, dragVars, audioVars, peakVars, codecVars,
                       rowVars, historyVars, appVars>>

\* The media element reports newTime as its position: onTimeUpdate.
handleTimeUpdate(newTime) ==
    LET stop == playbackEndTime # None /\ newTime >= Val(playbackEndTime)
    IN  /\ mediaTime' = newTime
        /\ currentTime' = newTime
        /\ paused' = IF stop THEN TRUE ELSE paused
        /\ playbackEndTime' = IF stop THEN None ELSE playbackEndTime
        /\ currentSubtitle' = ActiveCaption(editableSubtitles, newTime)
        /\ UNCHANGED <<editableSubtitles, selectedSubtitleIndex, srtContent,
                       dragVars, audioVars, peakVars, codecVars, rowVars,
                       historyVars, appVars>>

handlePlaySegment(startTime, endTime) ==
    /\ mediaTime' = startTime
    /\ paused' = FALSE
    /\ playbackEndTime' = Some(endTime)
    /\ UNCHANGED <<editableSubtitles, selectedSubtitleIndex, currentTime,
                   currentSubtitle, srtContent, dragVars, audioVars, peakVars, codecVars,
                   rowVars, historyVars, appVars>>

handleDownload ==
    /\ srtContent' = Some(toSrt(editableSubtitles, None))
    /\ UNCHANGED <<editableSubtitles, selectedSubtitleIndex, mediaTime, currentTime,
                   currentSubtitle, playbackEndTime, paused, dragVars, audioVars,
                   peakVars, codecVars, rowVars, historyVars, appVars>>

\* The user starts the playback with the controls of the media element
\* (lines 105 and 115).
MediaPlay ==
    /\ paused
    /\ paused' = FALSE
    /\ UNCHANGED <<editableSubtitles, selectedSubtitleIndex, mediaTime, currentTime,
                   currentSubtitle, srtContent, playbackEndTime, dragVars, audioVars,
                   peakVars, codecVars, rowVars, historyVars, appVars>>

(***************************************************************************)
(* Initial states.                                                         *)
(***************************************************************************)
Hi        == <<"h", "i">>
HiDot     == <<"h", "i", ".">>
There     == <<"t", "h", "e", "r", "e">>
ThereDot  == <<"t", "h", "e", "r", "e", ".">>
FriendDot == <<"f", "r", "i", "e", "n", "d", ".">>

\* Subtitle sequences as the generation step hands them over: sorted by
\* start, start < end, inside the media.
InitialSubtitles ==
    { << Entry(0, 8 * Sec, Hi), Entry(8 * Sec, 12 * Sec, There) >>,
      << Entry(0, 8 * Sec, Hi), Entry(4 * Sec, 12 * Sec, There) >> }

IdleHost(subs) ==
    /\ editableSubtitles = subs
    /\ selectedSubtitleIndex = None
    /\ mediaTime = 0
    /\ currentTime = 0
    /\ currentSubtitle = <<>>
    /\ srtContent = None
    /\ playbackEndTime = None
    /\ paused = TRUE

IdleDrag ==
    /\ dragInfo = None
    /\ uncaught = FALSE
    /\ commits = 0
    /\ splits = 0

IdlePeaks ==
    /\ pkData = <<>>
    /\ pkWidth = 0
    /\ pkOut = None

IdleCodec ==
    /\ durationHint = None
    /\ parsed = None
    /\ fmtIn = 0
    /\ fmtOut = None

\* The rows as mounted: every time field shows the formatted time of its entry
\* (the effect of SubtitleLineEdit.tsx lines 39-43 has run once).
IdleRows ==
    /\ startTimeStr = [i \in 1..Len(editableSubtitles) |->
                          secondsToTimeString(editableSubtitles[i].startTime)]
    /\ endTimeStr = [i \in 1..Len(editableSubtitles) |->
                        secondsToTimeString(editableSubtitles[i].endTime)]

IdleHistory ==
    /\ snapshots = <<editableSubtitles>>
    /\ cursor = 0
    /\ visible = editableSubtitles
    /\ calls = <<>>

\* App as mounted: no file, no subtitles, no generation under way.
IdleApp ==
    /\ appFile = None
    /\ subtitles = <<>>
    /\ status = "idle"
    /\ runs = <<>>

\* The editor open on a decoded file, the surface CanvasWidth pixels wide.
DecodedAudio ==
    LET buffer == [file |-> 1, data |-> FileData(1), duration |-> MediaDuration]
    IN  /\ file = 1
        /\ loads = (1 :> [isActive |-> TRUE, pc |-> "done"])
        /\ audioBuffer = buffer
        /\ duration = MediaDuration
        /\ peaks = extractPeaks(buffer.data, CanvasWidth)
        /\ containerWidth = CanvasWidth
        /\ canvasWidth = CanvasWidth
        /\ mounted = TRUE
        /\ draws = <<>>

(***************************************************************************)
(* Spec: the editor in edit mode on a one-entry list, pointer gestures on  *)
(* the waveform and manual time edits of the row.                          *)
(***************************************************************************)
Init ==
    /\ IdleHost(<< Entry(0, 8 * Sec, Hi) >>)
    /\ IdleDrag
    /\ DecodedAudio
    /\ IdlePeaks
    /\ IdleCodec
    /\ IdleRows
    /\ IdleHistory
    /\ IdleApp

Next ==
    \/ \E x \in CanvasXs, altKey \in BOOLEAN : handleMouseDown(x, altKey)
    \/ \E x \in PointerXs : handleMouseMove(x)
    \/ handleMouseUp
    \/ handleMouseLeave
    \/ \E i \in 1..Len(editableSubtitles), field \in {"startTime", "endTime"},
          value \in TypedTimes : handleTimeChange(i, field, value)
    \/ \E i \in 1..Len(editableSubtitles), field \in {"startTime", "endTime"} :
          handleTimeBlur(i, field)

Spec == Init /\ [][Next]_vars

(***************************************************************************)
(* SpecEdit: a two-entry list with manual time edits only.                 *)
(***************************************************************************)
NextEdit ==
    \/ \E i \in 1..Len(editableSubtitles), field \in {"startTime", "endTime"},
          value \in TypedTimes : handleTimeChange(i, field, value)
    \/ \E i \in 1..Len(editableSubtitles), field \in {"startTime", "endTime"} :
          handleTimeBlur(i, field)

(***************************************************************************)
(* SpecDrag: a two-entry list with pointer gestures only.                  *)
(***************************************************************************)
InitDrag ==
    /\ \E subs \in InitialSubtitles : IdleHost(subs)
    /\ IdleDrag
    /\ DecodedAudio
    /\ IdlePeaks
    /\ IdleCodec
    /\ IdleRows
    /\ IdleHistory
    /\ IdleApp

NextDrag ==
    \/ \E x \in CanvasXs, altKey \in BOOLEAN : handleMouseDown(x, altKey)
    \/ \E x \in PointerXs : handleMouseMove(x)
    \/ handleMouseUp
    \/ handleMouseLeave

SpecDrag == InitDrag /\ [][NextDrag]_vars

SpecEdit == InitDrag /\ [][NextEdit]_vars

(***************************************************************************)
(* SpecResize: two overlapping entries, pointer-downs without the split    *)
(* modifier and pointer-moves.                                             *)
(***************************************************************************)
InitResize ==
    /\ IdleHost(<< Entry(0, 8 * Sec, Hi), Entry(4 * Sec, 12 * Sec, There) >>)
    /\ IdleDrag
    /\ DecodedAudio
    /\ IdlePeaks
    /\ IdleCodec
    /\ IdleRows
    /\ IdleHistory
    /\ IdleApp

NextResize ==
    \/ \E x \in CanvasXs : handleMouseDown(x, FALSE)
    \/ \E x \in PointerXs : handleMouseMove(x)

SpecResize == InitResize /\ [][NextResize]_vars

(***************************************************************************)
(* SpecAudio: one WaveformEditor from its mount on: files, decodes,        *)
(* resizes, redraws, teardown.                                             *)
(***************************************************************************)
InitAudio ==
    /\ IdleHost(<<>>)
    /\ IdleDrag
    /\ IdlePeaks
    /\ IdleCodec
    /\ IdleRows
    /\ IdleHistory
    /\ IdleApp
    /\ file = 1
    /\ loads = (1 :> [isActive |-> TRUE, pc |-> "await"])
    /\ audioBuffer = None
    /\ duration = 0
    /\ peaks = <<>>
    /\ containerWidth \in 0..MaxWidth
    /\ canvasWidth = containerWidth
    /\ mounted = TRUE
    /\ draws = <<>>

NextAudio ==
    \/ FileChange
    \/ Unmount
    \/ \E f \in DOMAIN loads : DecodeResolve(f)
    \/ \E f \in DOMAIN loads : DecodeReject(f)
    \/ \E w \in 0..MaxWidth : handleResize(w)
    \/ Redraw

SpecAudio == InitAudio /\ [][NextAudio]_vars

(***************************************************************************)
(* SpecPeaks: extractPeaks applied to every small buffer and width.        *)
(***************************************************************************)
SampleBuffers(m) == UNION { [1..n -> SampleValues] : n \in 1..m }

InitPeaks ==
    /\ IdleHost(<<>>)
    /\ IdleDrag
    /\ DecodedAudio
    /\ IdleCodec
    /\ IdleRows
    /\ IdleHistory
    /\ IdleApp
    /\ pkData \in SampleBuffers(MaxSamples)
    /\ pkWidth \in 1..(MaxSamples + MaxWidth)
    /\ pkOut = None

Extract ==
    /\ pkOut = None
    /\ pkOut' = Some(extractPeaks(pkData, pkWidth))
    /\ UNCHANGED <<pkData, pkWidth, hostVars, dragVars, audioVars, codecVars,
                   rowVars, historyVars, appVars>>

NextPeaks == Extract

SpecPeaks == InitPeaks /\ [][NextPeaks]_vars

(***************************************************************************)
(* SpecHost: SubtitlePreview on every small subtitle sequence: playback    *)
(* time updates and the download of the .srt file.                         *)
(***************************************************************************)
Tenth == Sec \div 10

HostTimes == {0, 10 * Tenth, 12 * Tenth, 20 * Tenth, 21 * Tenth, 30 * Tenth}

\* The times the media element reports: inside entries, on a boundary and
\* between two entries.
PlaybackTimes == {5 * Tenth, 11 * Tenth, 20 * Tenth, 25 * Tenth}

HostTexts(k) == IF k = 1 THEN {Hi, HiDot}
                ELSE IF k = 2 THEN {There, ThereDot}
                ELSE {FriendDot}

HostEntries(k) ==
    { Entry(span[1], span[2], tx) :
        span \in {sp \in HostTimes \X HostTimes : sp[1] < sp[2]}, tx \in HostTexts(k) }

Sorted(subs) ==
    \A i \in 1..(Len(subs) - 1) : subs[i].startTime <= subs[i + 1].startTime

\* Sequences of one to three entries, sorted by start, start < end.
HostSubtitles ==
    { subs \in UNION { {<<a>> : a \in HostEntries(1)},
                       {<<a, b>> : a \in HostEntries(1), b \in HostEntries(2)},
                       {<<a, b, c>> : a \in HostEntries(1), b \in HostEntries(2),
                                      c \in HostEntries(3)} } :
        Sorted(subs) }

InitHost ==
    /\ \E subs \in HostSubtitles : IdleHost(subs)
    /\ IdleDrag
    /\ DecodedAudio
    /\ IdlePeaks
    /\ IdleCodec
    /\ IdleRows
    /\ IdleHistory
    /\ IdleApp

NextHost ==
    \/ \E t \in PlaybackTimes : handleTimeUpdate(t)
    \/ handleDownload

SpecHost == InitHost /\ [][NextHost]_vars

(***************************************************************************)
(* SpecPlay: the play buttons of the rows, the controls of the media       *)
(* element and the positions it reports while it plays.                    *)
(***************************************************************************)
\* The lists whose rows are played: three entries of the host lists.
PlaySubtitles ==
    { subs \in HostSubtitles : /\ Len(subs) = 3
                               /\ subs[1].startTime = 0
                               /\ subs[1].text = Hi
                               /\ subs[2].text = There }

InitPlay ==
    /\ \E subs \in PlaySubtitles : IdleHost(subs)
    /\ IdleDrag
    /\ DecodedAudio
    /\ IdlePeaks
    /\ IdleCodec
    /\ IdleRows
    /\ IdleHistory
    /\ IdleApp

NextPlay ==
    \/ \E i \in 1..Len(editableSubtitles) :
          handlePlaySegment(editableSubtitles[i].startTime, editableSubtitles[i].endTime)
    \/ MediaPlay
    \/ \E t \in PlaybackTimes : ~paused /\ handleTimeUpdate(t)

SpecPlay == InitPlay /\ [][NextPlay]_vars

(***************************************************************************)
(* SpecSrt: toSrt and parseSrt applied to bounded entry sequences.         *)
(***************************************************************************)
SrtTimes == {0, 1000 * TicksPerMs, 1234 * TicksPerMs, 2000 * TicksPerMs}

SrtTexts == {Hi, HiDot, <<>>}

SrtEntries ==
    { Entry(span[1], span[2], tx) :
        span \in {sp \in SrtTimes \X SrtTimes : sp[1] < sp[2]}, tx \in SrtTexts }

\* Sequences of one to n entries, sorted by start, start < end, whole milliseconds.
SrtSubtitles(n) ==
    { subs \in UNION { [1..k -> SrtEntries] : k \in 1..n } : Sorted(subs) }

\* The duration argument: left out, 0, and times before, at and after an end.
SrtHints == {None, Some(0), Some(1500 * TicksPerMs), Some(2000 * TicksPerMs),
             Some(3000 * TicksPerMs)}

InitSrt ==
    /\ \E subs \in SrtSubtitles(MaxSrtEntries) : IdleHost(subs)
    /\ IdleDrag
    /\ DecodedAudio
    /\ IdlePeaks
    /\ durationHint \in SrtHints
    /\ parsed = None
    /\ fmtIn = 0
    /\ fmtOut = None
    /\ IdleRows
    /\ IdleHistory
    /\ IdleApp

\* toSrt(entries, duration)
Serialize ==
    /\ srtContent = None
    /\ srtContent' = Some(toSrt(editableSubtitles, durationHint))
    /\ UNCHANGED <<editableSubtitles, selectedSubtitleIndex, mediaTime, currentTime,
                   currentSubtitle, playbackEndTime, paused, dragVars, audioVars,
                   peakVars, codecVars, rowVars, historyVars, appVars>>

\* parseSrt(srt) of the text just serialized
Parse ==
    /\ srtContent # None
    /\ parsed = None
    /\ parsed' = Some(parseSrt(Val(srtContent)))
    /\ UNCHANGED <<hostVars, dragVars, audioVars, peakVars, durationHint, fmtIn, fmtOut,
                   rowVars, historyVars, appVars>>

NextSrt == Serialize \/ Parse

SpecSrt == InitSrt /\ [][NextSrt]_vars

(***************************************************************************)
(* SpecFormat: secondsToTimeString applied to bounded times.               *)
(***************************************************************************)
\* Whole seconds around the minute, the hour and the day.
FormatSeconds == {0, 5, 59, 90, 3599, 3600, 36000, 86399}

\* Parts of a second in ticks: below and above half a millisecond, whole
\* milliseconds, and the last half millisecond before the next second.
FormatFractions == {0, 4, 5, 6, TicksPerMs, 500 * TicksPerMs,
                    Sec - 6, Sec - 5, Sec - 4, Sec - 1}

InitFormat ==
    /\ IdleHost(<<>>)
    /\ IdleDrag
    /\ DecodedAudio
    /\ IdlePeaks
    /\ durationHint = None
    /\ parsed = None
    /\ fmtIn \in {sec * Sec + frac : sec \in FormatSeconds, frac \in FormatFractions}
    /\ fmtOut = None
    /\ IdleRows
    /\ IdleHistory
    /\ IdleApp

\* secondsToTimeString(totalSeconds)
Format ==
    /\ fmtOut = None
    /\ fmtOut' = Some(secondsToTimeString(fmtIn))
    /\ UNCHANGED <<hostVars, dragVars, audioVars, peakVars, durationHint, parsed, fmtIn,
                   rowVars, historyVars, appVars>>

NextFormat == Format

SpecFormat == InitFormat /\ [][NextFormat]_vars

(***************************************************************************)
(* SpecParse: parseSrt applied to texts of well-formed and malformed       *)
(* blocks.                                                                 *)
(***************************************************************************)
Ms == TicksPerMs

\* startTime --> endTime
TimeLine(startTime, endTime) ==
    secondsToTimeString(startTime) \o <<" ", "-", "-", ">", " ">>
    \o secondsToTimeString(endTime)

\* The same line with periods for the commas.
PeriodLine(startTime, endTime) ==
    LET line == TimeLine(startTime, endTime)
    IN  [k \in 1..Len(line) |-> IF line[k] = "," THEN "." ELSE line[k]]

BlockIndexed   == <<"1", "\n">> \o TimeLine(0, 1000 * Ms) \o <<"\n">> \o Hi
BlockNoIndex   == TimeLine(1234 * Ms, 2000 * Ms) \o <<"\n">> \o HiDot
BlockNoTimes   == <<"2", "\n">> \o Hi
BlockPeriods   == <<"3", "\n">> \o PeriodLine(0, 1000 * Ms) \o <<"\n">> \o Hi
BlockTimesOnly == TimeLine(0, 1234 * Ms)
BlockPrefixed  == <<"4", "\n", ">">> \o TimeLine(2000 * Ms, 3000 * Ms) \o <<"\n">> \o Hi

SrtBlockPool == {BlockIndexed, BlockNoIndex, BlockNoTimes, BlockPeriods,
                 BlockTimesOnly, BlockPrefixed}

\* Texts of one to n blocks of the pool, separated by one blank line.
SrtInputs(n) ==
    { Join(blocks, <<"\n", "\n">>) :
        blocks \in UNION { [1..k -> SrtBlockPool] : k \in 1..n } }

InitParse ==
    /\ \E srt \in SrtInputs(MaxBlocks) :
          /\ editableSubtitles = <<>>
          /\ selectedSubtitleIndex = None
          /\ mediaTime = 0
          /\ currentTime = 0
          /\ currentSubtitle = <<>>
          /\ srtContent = Some(srt)
          /\ playbackEndTime = None
          /\ paused = TRUE
    /\ IdleDrag
    /\ DecodedAudio
    /\ IdlePeaks
    /\ IdleCodec
    /\ IdleRows
    /\ IdleHistory
    /\ IdleApp

NextParse == Parse

SpecParse == InitParse /\ [][NextParse]_vars

(***************************************************************************)
(* The subtitle history (spec section 4.4): snapshots of the subtitle      *)
(* sequence and a cursor. The source holds no implementation of it, only   *)
(* the onUpdateFinished and onSplitSubtitle props that would call it       *)
(* (SubtitlePreview.tsx lines 230-231); the operations follow the          *)
(* contract of the specification.                                          *)
(***************************************************************************)
\* The history as one value.
History == [snapshots |-> snapshots, cursor |-> cursor, visible |-> visible]

\* push that appends behind the redo-able future.
push_KeepFuture(h, newSequence, overwrite) ==
    [snapshots |-> h.snapshots \o <<newSequence>>,
     cursor    |-> h.cursor + 1,
     visible   |-> newSequence]

\* push(newSequence, overwrite): the future beyond the cursor is truncated,
\* newSequence is appended and the cursor advances; overwrite changes nothing
\* in the history itself.
push(h, newSequence, overwrite) ==
    [snapshots |-> SubSeq(h.snapshots, 1, h.cursor + 1) \o <<newSequence>>,
     cursor    |-> h.cursor + 1,
     visible   |-> newSequence]

\* undo that steps back from index 0 as well.
undo_NoFloor(h) ==
    [h EXCEPT !.cursor  = h.cursor - 1,
              !.visible = IF h.cursor = 0 THEN h.visible ELSE h.snapshots[h.cursor]]

\* undo(): one position back, a no-op at index 0.
undo(h) ==
    IF h.cursor = 0 THEN h
    ELSE [h EXCEPT !.cursor = h.cursor - 1, !.visible = h.snapshots[h.cursor]]

\* redo that jumps to the last snapshot.
redo_ToLast(h) ==
    [h EXCEPT !.cursor  = Len(h.snapshots) - 1,
              !.visible = h.snapshots[Len(h.snapshots)]]

\* redo(): one position forward, a no-op at the last snapshot.
redo(h) ==
    IF h.cursor = Len(h.snapshots) - 1 THEN h
    ELSE [h EXCEPT !.cursor = h.cursor + 1, !.visible = h.snapshots[h.cursor + 2]]

\* reset(newSequence): a single snapshot at index 0.
reset(newSequence) ==
    [snapshots |-> <<newSequence>>, cursor |-> 0, visible |-> newSequence]

\* The history becomes h after the operation op.
SetHistory(h, op) ==
    /\ snapshots' = h.snapshots
    /\ cursor' = h.cursor
    /\ visible' = h.visible
    /\ calls' = IF Len(calls) < 2 THEN Append(calls, op) ELSE <<calls[2], op>>
    /\ UNCHANGED <<hostVars, dragVars, audioVars, peakVars, codecVars, rowVars,
                   appVars>>

\* The sequences the editor may hand to the history.
HistorySequences ==
    { << Entry(0, 8 * Sec, Hi) >>, << Entry(0, 4 * Sec, Hi) >>,
      << Entry(0, 4 * Sec, Hi), Entry(4 * Sec, 8 * Sec, There) >> }

Push(newSequence, overwrite) ==
    /\ cursor + 1 < MaxSnapshots
    /\ SetHistory(push(History, newSequence, overwrite), "push")

Undo == SetHistory(undo(History), "undo")

Redo == SetHistory(redo(History), "redo")

Reset(newSequence) == SetHistory(reset(newSequence), "reset")

InitHistory ==
    /\ IdleHost(<< Entry(0, 8 * Sec, Hi) >>)
    /\ IdleDrag
    /\ DecodedAudio
    /\ IdlePeaks
    /\ IdleCodec
    /\ IdleRows
    /\ IdleHistory
    /\ IdleApp

NextHistory ==
    \/ \E newSequence \in HistorySequences, overwrite \in BOOLEAN :
          Push(newSequence, overwrite)
    \/ Undo
    \/ Redo
    \/ \E newSequence \in HistorySequences : Reset(newSequence)

SpecHistory == InitHistory /\ [][NextHistory]_vars

(***************************************************************************)
(* splitEntry (spec sections 4.3 and 6): the operation behind the          *)
(* onSplitSubtitle prop. The source holds its caller only                  *)
(* (SubtitlePreview.tsx line 372); the operation follows the split         *)
(* algorithm of the specification.                                         *)
(***************************************************************************)
\* The number of leading words whose running length, one more per space
\* between two words, reaches splitCharIndex; k words make total so far.
RECURSIVE WordsUntil(_, _, _, _)
WordsUntil(words, k, total, splitCharIndex) ==
    IF k = Len(words) THEN k
    ELSE LET reached == total + Len(words[k + 1]) + (IF k > 0 THEN 1 ELSE 0)
         IN  IF reached >= splitCharIndex THEN k + 1
             ELSE WordsUntil(words, k + 1, reached, splitCharIndex)

\* SplitHalves whose first half keeps the end of the entry.
SplitHalves_Overlap(entry, atTime) ==
    << Entry(entry.startTime, entry.endTime, entry.text),
       Entry(atTime, entry.endTime, entry.text) >>

\* The two entries that replace entry at the split time atTime.
SplitHalves(entry, atTime) ==
    LET span           == entry.endTime - entry.startTime
        splitCharIndex == Round((atTime - entry.startTime) * Len(entry.text), span)
        words          == Split(entry.text, " ")
        k              == WordsUntil(words, 0, 0, splitCharIndex)
        first          == Join(SubSeq(words, 1, k), <<" ">>)
        second         == Join(SubSeq(words, k + 1, Len(words)), <<" ">>)
        clean          == first # <<>> /\ second # <<>>
    IN  << Entry(entry.startTime, atTime, IF clean THEN first ELSE entry.text),
           Entry(atTime, entry.endTime, IF clean THEN second ELSE entry.text) >>

\* splitEntry that accepts a split time on the entry's own boundaries.
splitEntry_Inclusive(subs, index, atTime) ==
    IF atTime < subs[index].startTime \/ atTime > subs[index].endTime
    THEN subs
    ELSE SubSeq(subs, 1, index - 1) \o SplitHalves(subs[index], atTime)
         \o SubSeq(subs, index + 1, Len(subs))

\* splitEntry(index, atTime): the new subtitle sequence; a split time at or
\* outside the entry's boundaries is rejected.
splitEntry(subs, index, atTime) ==
    IF atTime <= subs[index].startTime \/ atTime >= subs[index].endTime
    THEN subs
    ELSE SubSeq(subs, 1, index - 1) \o SplitHalves(subs[index], atTime)
         \o SubSeq(subs, index + 1, Len(subs))

\* The host's splitEntry command: the split sequence becomes the authoritative
\* one and a snapshot of the history; the rows from index on get new entries.
SplitEntry(index, atTime) ==
    LET newSequence == splitEntry(editableSubtitles, index, atTime)
        h           == push(History, newSequence, FALSE)
    IN  IF newSequence = editableSubtitles
        THEN UNCHANGED vars
        ELSE /\ cursor + 1 < MaxSnapshots
             /\ editableSubtitles' = newSequence
             /\ snapshots' = h.snapshots
             /\ cursor' = h.cursor
             /\ visible' = h.visible
             /\ calls' = IF Len(calls) < 2 THEN Append(calls, "push")
                         ELSE <<calls[2], "push">>
             /\ startTimeStr' = [i \in 1..Len(newSequence) |->
                                    IF i < index THEN startTimeStr[i]
                                    ELSE secondsToTimeString(newSequence[i].startTime)]
             /\ endTimeStr' = [i \in 1..Len(newSequence) |->
                                  IF i < index THEN endTimeStr[i]
                                  ELSE secondsToTimeString(newSequence[i].endTime)]
             /\ UNCHANGED <<selectedSubtitleIndex, mediaTime, currentTime,
                            currentSubtitle, srtContent, playbackEndTime, paused,
                            dragVars, audioVars, peakVars, codecVars, appVars>>

HiThere == Hi \o <<" ">> \o There

SplitSubtitles ==
    { << Entry(0, 8 * Sec, HiThere), Entry(8 * Sec, 12 * Sec, There) >>,
      << Entry(0, 8 * Sec, HiThere), Entry(4 * Sec, 12 * Sec, There) >> }

\* The times a split may be asked for: inside, on and outside the entries.
SplitTimes == {0, 2 * Sec, 4 * Sec, 8 * Sec, 10 * Sec, 12 * Sec, 16 * Sec}

InitSplit ==
    /\ \E subs \in SplitSubtitles : IdleHost(subs)
    /\ IdleDrag
    /\ DecodedAudio
    /\ IdlePeaks
    /\ IdleCodec
    /\ IdleRows
    /\ IdleHistory
    /\ IdleApp

NextSplit ==
    \/ \E x \in CanvasXs, altKey \in BOOLEAN : handleMouseDown(x, altKey)
    \/ handleMouseUp
    \/ \E index \in 1..Len(editableSubtitles), atTime \in SplitTimes :
          SplitEntry(index, atTime)

SpecSplit == InitSplit /\ [][NextSplit]_vars

(***************************************************************************)
(* App (src/unnamed/part_004): the selected file, the generation of its    *)
(* subtitles and the status. The progress display (progress,               *)
(* loadingMessage, the interval) and the error text are left out.          *)
(***************************************************************************)
AppFiles == 1..MaxAppFiles

\* What synchronizeSubtitles yields for file f: files differ in their subtitles.
GeneratedSubtitles(f) == << Entry(0, f * Sec, Hi) >>

\* handleFileChange(selectedFile), from the FileUpload rendered while the
\* status is not SUCCESS (line 162).
handleFileChange(selectedFile) ==
    /\ status # "success"
    /\ appFile' = selectedFile
    /\ status' = "idle"
    /\ subtitles' = <<>>
    /\ UNCHANGED <<runs, hostVars, dragVars, audioVars, peakVars, codecVars, rowVars,
                   historyVars>>

\* handleReset, from SubtitlePreview (onReset) or through handleClearApiKey.
handleReset ==
    /\ appFile' = None
    /\ subtitles' = <<>>
    /\ status' = "idle"
    /\ UNCHANGED <<runs, hostVars, dragVars, audioVars, peakVars, codecVars, rowVars,
                   historyVars>>

\* handleGenerateSubtitles up to its first await (lines 64-79), from the
\* button rendered while the status is IDLE and a file is selected.
handleGenerateSubtitles ==
    /\ status = "idle"
    /\ appFile # None
    /\ Len(runs) < MaxRuns
    /\ status' = "loading"
    /\ subtitles' = <<>>
    /\ runs' = Append(runs, [file |-> Val(appFile), pc |-> "transcribe"])
    /\ UNCHANGED <<appFile, hostVars, dragVars, audioVars, peakVars, codecVars, rowVars,
                   historyVars>>

\* An await of run r resolves: transcribeWithWhisper (line 79), fileToBase64
\* (line 88), synchronizeSubtitles (line 94, after which the timer of line 99
\* is set).
Resolve(r) ==
    /\ runs[r].pc \in {"transcribe", "encode", "synchronize"}
    /\ runs' = [runs EXCEPT ![r].pc =
                   IF runs[r].pc = "transcribe" THEN "encode"
                   ELSE IF runs[r].pc = "encode" THEN "synchronize"
                   ELSE "timer"]
    /\ UNCHANGED <<appFile, subtitles, status, hostVars, dragVars, audioVars, peakVars,
                   codecVars, rowVars, historyVars>>

\* The timer of lines 99-102 of run r fires.
Timeout(r) ==
    /\ runs[r].pc = "timer"
    /\ subtitles' = GeneratedSubtitles(runs[r].file)
    /\ status' = "success"
    /\ runs' = [runs EXCEPT ![r].pc = "done"]
    /\ UNCHANGED <<appFile, hostVars, dragVars, audioVars, peakVars, codecVars, rowVars,
                   historyVars>>

\* An await of run r rejects, or line 91 throws: the catch of lines 104-120.
Reject(r) ==
    /\ runs[r].pc \in {"transcribe", "encode", "synchronize"}
    /\ status' = "error"
    /\ runs' = [runs EXCEPT ![r].pc = "done"]
    /\ UNCHANGED <<appFile, subtitles, hostVars, dragVars, audioVars, peakVars,
                   codecVars, rowVars, historyVars>>

InitApp ==
    /\ IdleHost(<<>>)
    /\ IdleDrag
    /\ DecodedAudio
    /\ IdlePeaks
    /\ IdleCodec
    /\ IdleRows
    /\ IdleHistory
    /\ IdleApp

NextApp ==
    \/ \E selectedFile \in {None} \cup {Some(f) : f \in AppFiles} :
          handleFileChange(selectedFile)
    \/ handleReset
    \/ handleGenerateSubtitles
    \/ \E r \in 1..Len(runs) : Resolve(r)
    \/ \E r \in 1..Len(runs) : Timeout(r)
    \/ \E r \in 1..Len(runs) : Reject(r)

SpecApp == InitApp /\ [][NextApp]_vars

(***************************************************************************)
(* Properties of the editor.                                               *)
(***************************************************************************)
\* C1: after any sequence of handleSubtitleUpdate calls, issued by drag
\* updates in mode start, end or move or by manual time edits, every entry
\* has startTime <= endTime; an update proposing startTime > endTime is
\* stored with the two times swapped.
C1_StartBeforeEnd ==
    \A i \in 1..Len(editableSubtitles) :
        editableSubtitles[i].startTime <= editableSubtitles[i].endTime

\* The row [0 s, 8 s] after 20 s was typed as its start: stored as [8 s, 20 s].
C1_SwappedEdit ==
    /\ dragInfo = None
    /\ editableSubtitles[1].startTime = 8 * Sec
    /\ editableSubtitles[1].endTime = 20 * Sec

\* C2: starting from entries within [0, duration], after any sequence of
\* drag gestures every entry still has 0 <= startTime and endTime <= duration.
C2_WithinMedia ==
    \A i \in 1..Len(editableSubtitles) :
        /\ 0 <= editableSubtitles[i].startTime
        /\ editableSubtitles[i].endTime <= duration

\* C3: the pointer-moves of a drag gesture commit nothing, and the pointer-up
\* or pointer-leave that ends the gesture commits exactly one history entry.
C3_OneCommitPerGesture ==
    [][/\ (\E x \in PointerXs : handleMouseMove(x)) => commits' = commits
       /\ (dragInfo # None /\ (handleMouseUp \/ handleMouseLeave))
              => commits' = commits + 1]_vars

\* C4: after a pointer-up or a pointer-leave the drag session is none, and
\* pointer-moves without a drag session update no entry.
C4_NoStuckDrag ==
    [][/\ (handleMouseUp \/ handleMouseLeave) => dragInfo' = None
       /\ (dragInfo = None /\ \E x \in PointerXs : handleMouseMove(x))
              => editableSubtitles' = editableSubtitles]_vars

\* C5: the completion of a decode that was superseded by a file change or by
\* the teardown of the editor writes neither the audio buffer nor the
\* duration nor the peaks.
C5_LateDecodeDiscarded ==
    [][\A f \in DOMAIN loads :
          (loads[f].pc = "await" /\ ~loads[f].isActive /\ loads'[f].pc # "await")
              => /\ audioBuffer' = audioBuffer
                 /\ duration' = duration
                 /\ peaks' = peaks]_vars

\* A superseded decode has completed and the decode of a later file was applied.
C5_DiscardedThenLoaded ==
    \E f \in DOMAIN loads :
        /\ loads[f].pc = "discarded"
        /\ audioBuffer # None
        /\ audioBuffer.file > f

\* C6: whenever peaks are drawn on a surface of positive width, they were
\* computed for that width: as many peaks as the surface has pixels.
C6_PeaksMatchWidth ==
    \A k \in 1..Len(draws) :
        (draws[k].width > 0 /\ draws[k].peaks > 0) => draws[k].peaks = draws[k].width

\* C7: extractPeaks returns exactly W peaks for every non-empty sample
\* buffer and every width W >= 1, also for W above the number of samples.
C7_ExactlyWidthPeaks ==
    (pkOut # None /\ Len(pkData) > 0 /\ pkWidth >= 1) => Len(Val(pkOut)) = pkWidth

\* Peaks were extracted for a width above the number of samples.
C7_WiderThanSamples ==
    /\ pkOut # None
    /\ Len(pkData) > 0
    /\ pkWidth > Len(pkData)

\* C8: after any sequence of edits the subtitle sequence is sorted by
\* non-decreasing startTime.
C8_SortedByStart ==
    \A i \in 1..(Len(editableSubtitles) - 1) :
        editableSubtitles[i].startTime <= editableSubtitles[i + 1].startTime

\* Both gaps of a three-entry sequence are below 0.5 s and the first text
\* has no terminal punctuation.
CloseTriple(subs) ==
    /\ Len(subs) = 3
    /\ subs[2].startTime - subs[1].endTime < Sec \div 2
    /\ subs[3].startTime - subs[2].endTime < Sec \div 2
    /\ ~endsWithPunctuation(subs[1].text)

\* C9: three consecutive entries with both gaps below 0.5 s and no terminal
\* punctuation on the first and second text are exported as one group
\* spanning first.start to third.end; when the second text ends in terminal
\* punctuation they are exported as the pair followed by the singleton.
C9_TripletGrouping ==
    LET subs == editableSubtitles
    IN  (srtContent # None /\ CloseTriple(subs)) =>
            Val(srtContent) =
                IF endsWithPunctuation(subs[2].text)
                THEN Join(<< Block(1, subs[1].startTime, subs[2].endTime,
                                   subs[1].text \o <<"\n">> \o subs[2].text),
                             Block(2, subs[3].startTime, subs[3].endTime,
                                   subs[3].text) >>, <<"\n", "\n">>)
                ELSE Block(1, subs[1].startTime, subs[3].endTime,
                           subs[1].text \o <<"\n">> \o subs[2].text
                           \o <<"\n">> \o subs[3].text)

\* The lines of the first export group whose span [firstStart, lastEnd]
\* contains t, '' when there is none.
RECURSIVE GroupCaption(_, _, _)
GroupCaption(subs, groups, t) ==
    IF groups = <<>> THEN <<>>
    ELSE LET g == Head(groups)
         IN  IF subs[g[1]].startTime <= t /\ t <= subs[g[Len(g)]].endTime
             THEN Join([k \in 1..Len(g) |-> subs[g[k]].text], <<"\n">>)
             ELSE GroupCaption(subs, Tail(groups), t)

\* C10: at every playback time the caption shown is the text of all members
\* of the export group whose combined span contains that time.
C10_DisplayUsesExportGroups ==
    [][(\E t \in PlaybackTimes : handleTimeUpdate(t))
          => currentSubtitle' =
                 GroupCaption(editableSubtitles, ExportGroups(editableSubtitles, 1),
                              currentTime')]_vars

\* The entries parseSrt returns are the export groups of subs, one entry per
\* group in order: the lines of its text are the texts of the members, its
\* start is the start of the first member and its end the end of the last.
RoundTrips(subs, out) ==
    LET groups == ExportGroups(subs, 1)
    IN  /\ Len(out) = Len(groups)
        /\ \A g \in 1..Len(groups) :
              LET members == groups[g]
              IN  /\ g <= Len(out)
                  /\ Split(out[g].text, "\n")
                         = [k \in 1..Len(members) |-> subs[members[k]].text]
                  /\ out[g].startTime = subs[members[1]].startTime
                  /\ out[g].endTime = subs[members[Len(members)]].endTime

\* C11: for every sorted sequence with start < end and whole-millisecond
\* times, parseSrt(toSrt(sequence)) reproduces the texts, once the text of
\* each block is split into its members again, and the start and end times.
C11_RoundTrip ==
    (parsed # None /\ durationHint = None)
        => RoundTrips(editableSubtitles, Val(parsed))

\* The blocks the claim of C14 expects: the export groups of subs, the end
\* of the last one replaced by finalEnd.
HintedBlocks(subs, finalEnd) ==
    LET groups == ExportGroups(subs, 1)
    IN  [g \in 1..Len(groups) |->
            LET members == groups[g]
            IN  Block(g, subs[members[1]].startTime,
                      IF g = Len(groups) THEN finalEnd
                      ELSE subs[members[Len(members)]].endTime,
                      Join([k \in 1..Len(members) |-> subs[members[k]].text],
                           <<"\n">>))]

\* C14: with a duration hint after the end of the final entry, the final
\* exported block ends at the hint; without a hint, or with the final end at
\* or after it, the final block ends at the final entry's own end; the times
\* of every other block are those of its members either way.
C14_HintExtendsFinalBlock ==
    srtContent # None =>
        LET subs     == editableSubtitles
            last     == subs[Len(subs)]
            finalEnd == IF durationHint # None /\ last.endTime < Val(durationHint)
                        THEN Val(durationHint) ELSE last.endTime
        IN  Val(srtContent) = Join(HintedBlocks(subs, finalEnd), <<"\n", "\n">>)

\* Two blocks were exported, the second extended to a hint after its end.
C14_ExtendedWithHint ==
    /\ srtContent # None
    /\ durationHint # None
    /\ Len(ExportGroups(editableSubtitles, 1)) = 2
    /\ editableSubtitles[Len(editableSubtitles)].endTime < Val(durationHint)

\* C12: for every time >= 0 secondsToTimeString returns HH:MM:SS,mmm with
\* exactly two digits for hours, minutes and seconds and exactly three for
\* the milliseconds; the first three fields hold the floored whole seconds
\* and the last the rounded remainder (5.0006 gives "00:00:05,001").
C12_StrictTimeFormat ==
    fmtOut # None =>
        LET out    == Val(fmtOut)
            millis == Round((fmtIn % Sec) * 1000, Sec)
        IN  /\ timeRegex(out)
            /\ millis < 1000 =>
                  /\ DigitsValue(SubSeq(out, 1, 2)) * 3600
                       + DigitsValue(SubSeq(out, 4, 5)) * 60
                       + DigitsValue(SubSeq(out, 7, 8)) = fmtIn \div Sec
                  /\ DigitsValue(SubSeq(out, 10, 12)) = millis

\* The blank-line-separated blocks of the text given to parseSrt.
InputBlocks == SplitBlocks(Val(srtContent))

\* The entry a block of the pool stands for, None when it stands for none.
PoolEntry(block) ==
    IF block = BlockIndexed THEN Entry(0, 1000 * Ms, Hi)
    ELSE IF block = BlockNoIndex THEN Entry(1234 * Ms, 2000 * Ms, HiDot)
    ELSE IF block = BlockPrefixed THEN Entry(2000 * Ms, 3000 * Ms, Hi)
    ELSE IF block = BlockTimesOnly THEN Entry(0, 1234 * Ms, <<>>)
    ELSE None

\* line is HH:MM:SS,mmm --> HH:MM:SS,mmm
StrictTimeLine(line) ==
    /\ Len(line) = 29
    /\ timeRegex(SubSeq(line, 1, 12))
    /\ SubSeq(line, 13, 17) = <<" ", "-", "-", ">", " ">>
    /\ timeRegex(SubSeq(line, 18, 29))

\* The block has a timestamp line of the strict form.
HasTimeLine(block) ==
    LET lines == Split(block, "\n")
    IN  \E k \in 1..Len(lines) : StrictTimeLine(lines[k])

\* The entries of out are the entries of the blocks of kept, in order.
EntriesOf(kept, out) ==
    /\ Len(out) = Len(kept)
    /\ \A j \in 1..Len(kept) : j <= Len(out) /\ out[j] = PoolEntry(kept[j])

\* C13: of n blank-line-separated blocks of which k lack a timestamp line of
\* the strict form HH:MM:SS,mmm --> HH:MM:SS,mmm, parseSrt returns the n - k
\* other entries in their original order.
C13_DropsExactlyMalformed ==
    parsed # None => EntriesOf(SelectSeq(InputBlocks, HasTimeLine), Val(parsed))

\* The block has two lines or more, and its first line that holds an arrow
\* holds two timestamps of the strict form around the arrow.
HasUsableTimeLine(block) ==
    LET lines  == Split(block, "\n")
        arrows == {k \in 1..Len(lines) : Includes(lines[k], Arrow)}
    IN  /\ Len(lines) >= 2
        /\ arrows # {}
        /\ LET line == lines[Least(arrows)]
           IN  \E p \in 1..Len(line) :
                  /\ p + 28 <= Len(line)
                  /\ StrictTimeLine(SubSeq(line, p, p + 28))

\* C13 as amended: parseSrt returns, in their original order, the entries of
\* the blocks that have two lines or more and whose first line holding an
\* arrow holds two strict timestamps around it, and drops every other block.
C13_DropsBlocksWithoutTimes ==
    parsed # None => EntriesOf(SelectSeq(InputBlocks, HasUsableTimeLine), Val(parsed))

\* A text of three blocks, the middle one without timestamps, was parsed.
C13_MalformedBetweenValid ==
    /\ parsed # None
    /\ Len(InputBlocks) = 3
    /\ InputBlocks[2] = BlockNoTimes
    /\ Len(Val(parsed)) = 2

\* The text of the time field of row index after the step.
FieldTextAfter(index, field) ==
    IF field = "startTime" THEN startTimeStr'[index] ELSE endTimeStr'[index]

\* C15: when a time field whose text is not of the form HH:MM:SS,mmm loses
\* the focus, the subtitle sequence stays as it is and the field shows the
\* formatted time of its entry again.
C15_InvalidEditRejected ==
    [][\A index \in 1..Len(editableSubtitles), field \in {"startTime", "endTime"} :
          (handleTimeBlur(index, field) /\ ~timeRegex(FieldText(index, field)))
              => /\ editableSubtitles' = editableSubtitles
                 /\ FieldTextAfter(index, field) =
                        secondsToTimeString(editableSubtitles[index][field])]_vars

\* The start field of the row holds a text with a period for the comma, the
\* entry starting at the 4 s of an earlier edit.
C15_InvalidTextTyped ==
    /\ ~timeRegex(startTimeStr[2])
    /\ Len(startTimeStr[2]) = 12
    /\ editableSubtitles[2].startTime = 4 * Sec
    /\ editableSubtitles[1].endTime = 20 * Sec

\* C16: a pointer-down with the split modifier held, at a time strictly
\* inside an entry, requests the split of that entry exactly once, starts no
\* drag session, seeks nowhere and leaves the selection as it is.
C16_AltClickSplitsOnce ==
    [][\A x \in CanvasXs :
          (/\ handleMouseDown(x, TRUE)
           /\ SplitTarget(editableSubtitles, Len(editableSubtitles), pxToTime(x)) # 0)
              => /\ splits' = splits + 1
                 /\ dragInfo' = dragInfo
                 /\ mediaTime' = mediaTime
                 /\ selectedSubtitleIndex' = selectedSubtitleIndex
                 /\ editableSubtitles' = editableSubtitles]_vars

\* No entry holds time strictly inside its span.
InsideNone(time) ==
    \A i \in 1..Len(editableSubtitles) :
        ~(editableSubtitles[i].startTime < time /\ time < editableSubtitles[i].endTime)

\* atTime is on or outside the boundaries of entry index.
AtOrOutside(index, atTime) ==
    \/ atTime <= editableSubtitles[index].startTime
    \/ atTime >= editableSubtitles[index].endTime

\* A split of entry index at a time on or outside its boundaries changes
\* neither the subtitle sequence nor the history nor the drag session.
RejectedSplitIsNoOp ==
    \A index \in 1..Len(editableSubtitles), atTime \in SplitTimes :
        (SplitEntry(index, atTime) /\ AtOrOutside(index, atTime))
            => UNCHANGED <<editableSubtitles, historyVars, dragInfo>>

C18_CursorValid ==
    /\ snapshots # <<>>
    /\ 0 <= cursor
    /\ cursor < Len(snapshots)
    /\ cursor + 1 \in DOMAIN snapshots => visible = snapshots[cursor + 1]

\* An undo and then a redo in a history of three snapshots.
C18_RedoneInTheMiddle ==
    /\ calls = <<"undo", "redo">>
    /\ Len(snapshots) = 3
    /\ cursor = 1

\* The history after the step.
HistoryAfter == [snapshots |-> snapshots', cursor |-> cursor', visible |-> visible']

\* C19: after push(newSequence) the cursor is on the last snapshot, which is
\* newSequence, the snapshots up to the old cursor are kept and those beyond
\* it are gone, and a redo changes nothing.
C19_PushDiscardsRedo ==
    [][\A newSequence \in HistorySequences, overwrite \in BOOLEAN :
          Push(newSequence, overwrite)
              => /\ cursor' = Len(snapshots') - 1
                 /\ snapshots'[Len(snapshots')] = newSequence
                 /\ visible' = newSequence
                 /\ Len(snapshots') = cursor + 2
                 /\ SubSeq(snapshots', 1, cursor + 1) = SubSeq(snapshots, 1, cursor + 1)
                 /\ redo(HistoryAfter) = HistoryAfter]_vars

\* A push made right after an undo.
C19_PushedAfterUndo ==
    /\ calls = <<"undo", "push">>
    /\ Len(snapshots) = 2
    /\ cursor = 1

\* C20: with the cursor above 0 an undo and then a redo give the same cursor
\* and the same visible sequence; an undo at cursor 0 and a redo at the last
\* snapshot change neither the cursor nor the snapshots.
C20_UndoRedoInverse ==
    /\ cursor > 0 =>
          /\ redo(undo(History)).cursor = cursor
          /\ redo(undo(History)).visible = visible
    /\ cursor = 0 =>
          /\ undo(History).cursor = cursor
          /\ undo(History).snapshots = snapshots
    /\ cursor = Len(snapshots) - 1 =>
          /\ redo(History).cursor = cursor
          /\ redo(History).snapshots = snapshots

\* An undo and then a redo that ended below the last snapshot.
C20_UndoneAndRedone ==
    /\ calls = <<"undo", "redo">>
    /\ cursor > 0
    /\ cursor < Len(snapshots) - 1
    /\ visible # snapshots[cursor]

\* atTime is strictly inside the span of entry index.
StrictlyInside(index, atTime) ==
    /\ editableSubtitles[index].startTime < atTime
    /\ atTime < editableSubtitles[index].endTime

\* C21: splitEntry(index, t) with start < t < end puts two entries with the
\* spans [start, t] and [t, end] in the place of entry index; the sequence
\* grows by one and every other entry keeps its content and its order.
C21_SplitReplacesByTwo ==
    [][\A index \in 1..Len(editableSubtitles), atTime \in SplitTimes :
          (SplitEntry(index, atTime) /\ StrictlyInside(index, atTime))
              => /\ Len(editableSubtitles') = Len(editableSubtitles) + 1
                 /\ editableSubtitles'[index].startTime =
                        editableSubtitles[index].startTime
                 /\ editableSubtitles'[index].endTime = atTime
                 /\ editableSubtitles'[index + 1].startTime = atTime
                 /\ editableSubtitles'[index + 1].endTime =
                        editableSubtitles[index].endTime
                 /\ \A i \in 1..Len(editableSubtitles) :
                       /\ i < index => editableSubtitles'[i] = editableSubtitles[i]
                       /\ i > index => editableSubtitles'[i + 1] = editableSubtitles[i]]_vars

\* The first entry was split at 2 s, the second entry following the halves.
C21_SplitAtTwoSeconds ==
    /\ Len(editableSubtitles) = 3
    /\ editableSubtitles[1].endTime = 2 * Sec
    /\ editableSubtitles[2].startTime = 2 * Sec
    /\ editableSubtitles[3].text = There

\* C22: the texts of the two entries a split produces, joined by the
\* separator, are the text of the entry that was split.
C22_SplitKeepsText ==
    [][\A index \in 1..Len(editableSubtitles), atTime \in SplitTimes :
          (SplitEntry(index, atTime) /\ StrictlyInside(index, atTime))
              => editableSubtitles'[index].text \o <<" ">>
                     \o editableSubtitles'[index + 1].text
                 = editableSubtitles[index].text]_vars

\* The entries with an edge within the handle tolerance of x.
NearEdges(x) ==
    {i \in 1..Len(editableSubtitles) :
        \/ NearEdge(x, editableSubtitles[i].startTime)
        \/ NearEdge(x, editableSubtitles[i].endTime)}

\* C23: a pointer-down without the split modifier within the handle tolerance
\* of an edge of some entry opens a start or end session of the highest such
\* entry; a move session is opened only when no edge is within tolerance.
C23_HandlesBeforeBodies ==
    [][\A x \in CanvasXs :
          (handleMouseDown(x, FALSE) /\ NearEdges(x) # {})
              => /\ dragInfo' # None
                 /\ dragInfo'.type \in {"start", "end"}
                 /\ \A i \in NearEdges(x) : i <= dragInfo'.index]_vars

\* C24: every pointer-move of a move session puts the start of the entry at
\* max(0, originalStart + deltaTime), keeps its end within the media and
\* keeps its length, at the left and at the right boundary alike.
C24_MoveKeepsLength ==
    [][\A x \in PointerXs :
          (handleMouseMove(x) /\ dragInfo # None /\ dragInfo.type = "move")
              => LET moved == editableSubtitles'[dragInfo.index]
                 IN  /\ moved.startTime =
                            Max2(0, dragInfo.originalStart + pxToTime(x - dragInfo.startX))
                     /\ moved.endTime <= duration
                     /\ moved.endTime - moved.startTime =
                            dragInfo.originalEnd - dragInfo.originalStart]_vars

\* clamp(pxToTime(x), 0, duration)
ClampedTime(x) ==
    IF pxToTime(x) < 0 THEN 0
    ELSE IF pxToTime(x) > duration THEN duration
    ELSE pxToTime(x)

\* C25: a pointer-move of a start session sets the start of the entry to the
\* clamped pointer time or to the entry's end, whichever is less, and one of
\* an end session sets the end to the clamped pointer time or to the entry's
\* start, whichever is more; the other edge, the text and the other entries
\* stay as they are.
C25_OnlyDraggedEdgeMoves ==
    [][\A x \in PointerXs :
          (handleMouseMove(x) /\ dragInfo # None /\ dragInfo.type # "move")
              => LET sub     == editableSubtitles[dragInfo.index]
                     dragged == editableSubtitles'[dragInfo.index]
                 IN  /\ dragged.text = sub.text
                     /\ dragged.startTime <= dragged.endTime
                     /\ dragInfo.type = "start" =>
                           /\ dragged.endTime = sub.endTime
                           /\ dragged.startTime =
                                  IF ClampedTime(x) < sub.endTime
                                  THEN ClampedTime(x) ELSE sub.endTime
                     /\ dragInfo.type = "end" =>
                           /\ dragged.startTime = sub.startTime
                           /\ dragged.endTime =
                                  IF ClampedTime(x) > sub.startTime
                                  THEN ClampedTime(x) ELSE sub.startTime
                     /\ \A i \in 1..Len(editableSubtitles) :
                           i # dragInfo.index
                               => editableSubtitles'[i] = editableSubtitles[i]]_vars

\* A start session whose pointer went past the end of its entry: the start
\* stopped at the end.
C25_StartStoppedAtEnd ==
    /\ dragInfo # None
    /\ dragInfo.type = "start"
    /\ editableSubtitles[dragInfo.index].startTime =
           editableSubtitles[dragInfo.index].endTime
    /\ editableSubtitles[dragInfo.index].startTime > dragInfo.originalStart

\* The entries toSrt groups: the sequence with the end of its last entry at
\* the duration hint when the hint is later.
Exported == ExtendLast(editableSubtitles, durationHint)

\* The pair condition of the claim at index i.
MergesWithNext(subs, i) ==
    /\ i < Len(subs)
    /\ subs[i + 1].startTime - subs[i].endTime < 500 * Ms
    /\ LET text == Trim(subs[i].text)
       IN  text = <<>> \/ text[Len(text)] \notin {".", "?", "!"}

\* index, time line and text of one block.
BlockText(index, startTime, endTime, text) ==
    NumToString(index) \o <<"\n">> \o TimeLine(startTime, endTime) \o <<"\n">> \o text

\* The blocks the claim of C26 expects from index i on.
RECURSIVE PairedBlocks(_, _, _)
PairedBlocks(subs, i, index) ==
    IF i > Len(subs) THEN <<>>
    ELSE IF MergesWithNext(subs, i)
    THEN << BlockText(index, subs[i].startTime, subs[i + 1].endTime,
                      subs[i].text \o <<"\n">> \o subs[i + 1].text) >>
         \o PairedBlocks(subs, i + 2, index + 1)
    ELSE << BlockText(index, subs[i].startTime, subs[i].endTime, subs[i].text) >>
         \o PairedBlocks(subs, i + 1, index + 1)

RECURSIVE Members(_)
Members(groups) == IF groups = <<>> THEN <<>> ELSE Head(groups) \o Members(Tail(groups))

\* The block of group g of the export groups of subs.
GroupBlock(subs, groups, g) ==
    LET members == groups[g]
    IN  BlockText(g, subs[members[1]].startTime, subs[members[Len(members)]].endTime,
                  Join([k \in 1..Len(members) |-> subs[members[k]].text], <<"\n">>))

\* C27: the export groups are one to three entries each, every entry is in
\* exactly one group, the groups in order are the sequence, and the export
\* is one block per group.
C27_GroupsPartition ==
    srtContent # None =>
        LET groups == ExportGroups(Exported, 1)
        IN  /\ Members(groups) = [i \in 1..Len(editableSubtitles) |-> i]
            /\ \A g \in 1..Len(groups) : Len(groups[g]) \in 1..3
            /\ Val(srtContent) =
                   Join([g \in 1..Len(groups) |-> GroupBlock(Exported, groups, g)],
                        <<"\n", "\n">>)

\* An export of two entries in two groups, the first ending a sentence.
C27_TwoGroupsExported ==
    /\ srtContent # None
    /\ Len(editableSubtitles) = 2
    /\ editableSubtitles[1].text = HiDot
    /\ Len(ExportGroups(Exported, 1)) = 2

\* Bucket i (1-based) of the extraction holds no sample of the buffer.
EmptyBucket(i) ==
    LET step == (Len(pkData) + pkWidth - 1) \div pkWidth
    IN  (i - 1) * step >= Len(pkData)

\* C28: every peak extractPeaks returns has -1 <= min <= max <= 1, and the
\* peak of a bucket that holds no sample is (0, 0).
C28_EmptyBucketsAreZero ==
    pkOut # None =>
        \A i \in 1..Len(Val(pkOut)) :
            LET min == Val(pkOut)[i][1]
                max == Val(pkOut)[i][2]
            IN  /\ 0 - AmpOne <= min
                /\ min <= max
                /\ max <= AmpOne
                /\ EmptyBucket(i) => (min = 0 /\ max = 0)

\* C29: in every interleaving of Generate, file change, reset and the
\* completions, the status SUCCESS implies that a file is selected and that
\* the subtitles shown were generated from it.
C29_SuccessIsForCurrentFile ==
    status = "success"
        => /\ appFile # None
           /\ subtitles = GeneratedSubtitles(Val(appFile))

\* C30: play-segment(start, end) puts the playback at start, playing, with
\* the pending end set to end; a time-update pauses the playback and clears
\* the pending end exactly if the reported time is at or after a pending
\* end, and with no pending end it pauses nothing.
C30_AutoPauseOnce ==
    [][/\ \A i \in 1..Len(editableSubtitles) :
             handlePlaySegment(editableSubtitles[i].startTime,
                               editableSubtitles[i].endTime)
                 => /\ mediaTime' = editableSubtitles[i].startTime
                    /\ playbackEndTime' = Some(editableSubtitles[i].endTime)
                    /\ ~paused'
       /\ \A t \in PlaybackTimes :
             handleTimeUpdate(t)
                 => IF playbackEndTime # None /\ t >= Val(playbackEndTime)
                    THEN paused' /\ playbackEndTime' = None
                    ELSE /\ paused' = paused
                         /\ playbackEndTime' = playbackEndTime]_vars

\* The playback of the first entry, which ends at 1.0 s, was paused at
\* 1.1 s, and no end is pending.
C30_PausedPastTheEnd ==
    /\ editableSubtitles[1].endTime = 10 * Tenth
    /\ paused
    /\ playbackEndTime = None
    /\ currentTime = 11 * Tenth
    /\ mediaTime = currentTime

====
